---- MODULE Spec2Model ----
(***************************************************************************)
(* A model of the oncall relay server (src/server.js, the version that     *)
(* starts at line 264): the SQLite store (subscriptions, messages,         *)
(* webhooks), the HTTP handlers, the push fan-out (sendToAll, purge), the  *)
(* realtime broadcast and the webhook dispatch.                            *)
(*                                                                         *)
(* One action is one run of the event loop: a handler up to its first      *)
(* await, or the continuation that runs when one push attempt resolves     *)
(* (together with everything Promise.all then releases in the same         *)
(* microtask drain).  fx holds, in program order, the effects of the last  *)
(* such run: the request, store writes, pushes issued, realtime sends,     *)
(* webhook calls and the response.                                         *)
(*                                                                         *)
(* Not modelled: the url and tag fields of a notify (they are only copied  *)
(* into the push payload), the id and createdAt columns of webhooks, the   *)
(* createdAt column of subscriptions (the AUTOINCREMENT id orders the rows *)
(* the same way), the body of a push error, VAPID key handling.            *)
(***************************************************************************)
EXTENDS Integers, Sequences, FiniteSets, TLC

\* Bounds of the model: the requests that add a row (subscribe, notify,
\* respond) in one behaviour, the messages of the message-log
\* specification, and the seconds the clock moves on.
MaxRequests == 3
MaxMsgs == 3
MaxClock == 1

\* A falsy request field (absent, undefined or the empty string).
Missing == ""
\* SQL NULL / JS null.
Null == "null"

Endpoints == {"e1", "e2"}
Urls == {"u1", "u2"}
Conns == {"c1", "c2"}
ConnOrder == <<"c1", "c2">>
UrlOrder == <<"u1", "u2">>
\* The slots for async handlers waiting on their pushes.
OpIds == {1, 2}

\* process.env.API_KEY, and the credentials a caller may present.
API_KEY == "secret"
KeyInputs == {API_KEY, "wrong", Missing}

\* The values uuidv4() hands out, in order.
UuidPool == <<"m1", "m2", "m3", "m4", "m5", "m6", "m7", "m8">>

\* Request inputs.
EndpointInputs == Endpoints \cup {Missing}
SubKeyInputs ==
    { [p256dh |-> "k1", auth |-> "a1"],
      [p256dh |-> "k2", auth |-> "a2"],
      [p256dh |-> Missing, auth |-> "a1"],
      [p256dh |-> "k1", auth |-> Missing] }
TitleInputs == {"Deploy", Missing}
BodyInputs == {"Ready", Missing}
UiInputs == {"form", Missing}
TextInputs == {"approved", Missing}
DataInputs == {"fields", Missing}
UrlInputs == Urls \cup {Missing}
\* An events string, as its characters: event names and "," separators.
\* <<"notification", "response">> is the string "notificationresponse",
\* <<>> the empty (or absent) string.
EventsInputs ==
    { <<"*">>, <<"notification">>, <<"response">>,
      <<"notification", ",", "response">>, <<"*", ",", "response">>,
      <<"notification", "response">>, <<>> }
\* An id no message has (a caller cannot guess a uuid before it is drawn).
UnknownId == "m0"
\* What a push attempt can resolve to: 201 is success, the rest is the
\* statusCode of the WebPushError it rejects with.
PushOutcomes == {201, 404, 410, 500}
WsMsgInputs ==
    { [type |-> "notify", title |-> "Deploy", body |-> "Ready"],
      [type |-> "notify", title |-> Missing, body |-> "Ready"],
      [type |-> "notify", title |-> "Deploy", body |-> Missing],
      [type |-> "ping", title |-> "Deploy", body |-> "Ready"],
      [type |-> "unparseable", title |-> Missing, body |-> Missing] }

VARIABLES
    subs,      \* table subscriptions: a set of rows
    subSeq,    \* its AUTOINCREMENT counter
    messages,  \* table messages: rows in insertion (rowid) order
    uuidSeq,   \* how many uuids uuidv4() has handed out
    clock,     \* datetime('now'), in seconds
    webhooks,  \* table webhooks: a set of rows
    clients,   \* wss.clients: each connection's state
    ops,       \* the async handlers in flight (notify, ws notify, purge)
    fetches,   \* the webhook deliveries (fetch calls) in flight
    fx         \* the effects of the last run of the event loop, in order

vars ==
    <<subs, subSeq, messages, uuidSeq, clock, webhooks, clients, ops, fetches,
      fx>>

----------------------------------------------------------------------------
\* Helpers.

Range(s) == {s[i] : i \in DOMAIN s}

Falsy(v) == v \in {Missing, Null}

\* JSON.stringify / JSON.parse of a structured value.
JsonText == [form |-> "[{\"type\":\"checkbox\"}]", fields |-> "{\"approve\":\"true\"}"]
Stringify(v) == JsonText[v]
Parse(s) == CHOOSE v \in DOMAIN JsonText : JsonText[v] = s

\* String.prototype.split(","): the pieces between the "," characters.
RECURSIVE SplitFrom(_, _, _)
SplitFrom(s, i, cur) ==
    IF i > Len(s) THEN <<cur>>
    ELSE IF s[i] = "," THEN <<cur>> \o SplitFrom(s, i + 1, <<>>)
    ELSE SplitFrom(s, i + 1, Append(cur, s[i]))
Split(s) == SplitFrom(s, 1, <<>>)

\* sub.endpoint.slice(0, 60) + "...": the model's endpoints are shorter
\* than 60 characters.
TruncateEndpoint(e) == <<e, "...">>

\* Effects.
Req(route, args) == [t |-> "req", route |-> route, args |-> args]
Resp(status, body) == [t |-> "resp", status |-> status, body |-> body]
FxInsertMessage(id) == [t |-> "insertMessage", id |-> id]
\* replaced: whether the INSERT OR REPLACE displaced a row; changes: the
\* number of rows the DELETE removed (the statement's info.changes).
FxInsertSub(e, replaced) ==
    [t |-> "insertSub", endpoint |-> e, replaced |-> replaced]
FxDeleteSub(e, changes) ==
    [t |-> "deleteSub", endpoint |-> e, changes |-> changes]
FxPush(e, payload, probe) ==
    [t |-> "push", endpoint |-> e, payload |-> payload, probe |-> probe]
FxWs(c, data) == [t |-> "ws", conn |-> c, data |-> data]
FxThrow == [t |-> "throw"]
FxHook(url, payload) == [t |-> "hook", url |-> url, payload |-> payload]

----------------------------------------------------------------------------
\* The store.

\* Mutant of InsertSub: a plain INSERT into a table whose endpoint column
\* is not UNIQUE.
InsertSubNoReplace(S, seq, endpoint, p256dh, auth) ==
    S \cup {[id |-> seq + 1, endpoint |-> endpoint, keys_p256dh |-> p256dh,
             keys_auth |-> auth]}

\* stmts.insertSub: INSERT OR REPLACE on the UNIQUE endpoint.
InsertSub(S, seq, endpoint, p256dh, auth) ==
    {r \in S : r.endpoint # endpoint} \cup
    {[id |-> seq + 1, endpoint |-> endpoint, keys_p256dh |-> p256dh,
      keys_auth |-> auth]}

\* Mutant of DeleteSub: the WHERE clause is inverted.
DeleteSubOthers(S, endpoint) == {r \in S : r.endpoint = endpoint}

\* stmts.deleteSub.
DeleteSub(S, endpoint) == {r \in S : r.endpoint # endpoint}

Matching(S, endpoint) == Cardinality({r \in S : r.endpoint = endpoint})

\* stmts.getAllSubs: newest first.
RECURSIVE NewestFirst(_)
NewestFirst(S) ==
    IF S = {} THEN <<>>
    ELSE LET r == CHOOSE x \in S : \A y \in S : y.id <= x.id
         IN <<r>> \o NewestFirst(S \ {r})
GetAllSubs(S) == NewestFirst(S)

\* getSubCount().
GetSubCount(S) == Cardinality(S)

\* uuidv4(): the n-th fresh identifier.
Uuidv4(n) == UuidPool[n + 1]

\* Mutant of InsertMessageOk: foreign_keys is left OFF, so the FOREIGN KEY
\* is not enforced.
InsertMessageOkNoForeignKey(M, id, parentId) ==
    \A i \in DOMAIN M : M[i].id # id

\* Whether stmts.insertMessage accepts the row: the PRIMARY KEY is new and
\* the FOREIGN KEY parentId, when not NULL, names a row.
InsertMessageOk(M, id, parentId) ==
    /\ \A i \in DOMAIN M : M[i].id # id
    /\ parentId = Null \/ \E i \in DOMAIN M : M[i].id = parentId

MessageRow(id, title, body, now, type, parentId, ui, data) ==
    [id |-> id, title |-> title, body |-> body, sentAt |-> now,
     type |-> type, parentId |-> parentId, ui |-> ui, data |-> data]

\* Mutant of InsertMessage: the log is trimmed to a window of the newest
\* rows on every insert.
InsertMessageTrimmed(M, row) ==
    IF Len(M) >= 2 THEN Append(Tail(M), row) ELSE Append(M, row)

\* stmts.insertMessage: INSERT INTO messages, a new row after the others.
InsertMessage(M, row) == Append(M, row)

\* Mutant of LatestNotifications: ORDER BY sentAt ASC.
OldestNotifications(M) ==
    {i \in DOMAIN M :
        /\ M[i].type = "notification"
        /\ \A j \in DOMAIN M :
              M[j].type = "notification" => M[i].sentAt <= M[j].sentAt}

\* SELECT id FROM messages WHERE type = 'notification' ORDER BY sentAt DESC
\* LIMIT 1: the rows the query may return (SQL leaves the order of rows
\* with equal sentAt open).
LatestNotifications(M) ==
    {i \in DOMAIN M :
        /\ M[i].type = "notification"
        /\ \A j \in DOMAIN M :
              M[j].type = "notification" => M[j].sentAt <= M[i].sentAt}

\* stmts.insertWebhook: INSERT OR REPLACE on the UNIQUE url.
InsertWebhook(W, url, events) ==
    {h \in W : h.url # url} \cup {[url |-> url, events |-> events]}

\* stmts.deleteWebhook.
DeleteWebhook(W, url) == {h \in W : h.url # url}

\* stmts.getAllWebhooks.
GetAllWebhooks(W) ==
    LET idx == SelectSeq(UrlOrder, LAMBDA u : \E h \in W : h.url = u)
    IN [i \in 1..Len(idx) |-> CHOOSE h \in W : h.url = idx[i]]

----------------------------------------------------------------------------
\* Fan-out.

\* Mutant of ReadyState: every connection in wss.clients counts as OPEN.
ReadyStateAlwaysOpen(st) == 1

\* WebSocket.readyState of a connection in wss.clients.
ReadyState(st) == IF st = "open" THEN 1 ELSE 2

\* broadcastWs(data): one send per client whose readyState is OPEN.
BroadcastWs(cl, data) ==
    LET open == SelectSeq(ConnOrder,
                          LAMBDA c : cl[c] # "absent" /\ ReadyState(cl[c]) = 1)
    IN [i \in 1..Len(open) |-> FxWs(open[i], data)]

\* Mutant of HookMatches: the event name or "*" anywhere in the string.
HookMatchesLoose(h, event) ==
    "*" \in Range(h.events) \/ event \in Range(h.events)

\* The filter of fireWebhooks.
HookMatches(h, event) ==
    h.events = <<"*">> \/ <<event>> \in Range(Split(h.events))

\* Mutant of FireWebhooks: every delivery is attempted twice.
FireWebhooksTwice(W, event, payload) ==
    LET hooks == SelectSeq(GetAllWebhooks(W), LAMBDA h : HookMatches(h, event))
    IN [i \in 1..(2 * Len(hooks)) |->
          FxHook(hooks[((i - 1) % Len(hooks)) + 1].url, payload)]

\* fireWebhooks(event, payload): one fetch per matching webhook.
FireWebhooks(W, event, payload) ==
    LET hooks == SelectSeq(GetAllWebhooks(W), LAMBDA h : HookMatches(h, event))
    IN [i \in 1..Len(hooks) |-> FxHook(hooks[i].url, payload)]

\* The fetch calls among the effects f: each is in flight once issued.
Fetching(f) ==
    {[url |-> f[i].url, payload |-> f[i].payload] :
        i \in {j \in DOMAIN f : f[j].t = "hook"}}

----------------------------------------------------------------------------
\* The push dispatcher.

Idle == [kind |-> "idle"]
NoResults == [sent |-> 0, failed |-> 0, removed |-> 0, errors |-> <<>>]

\* Mutant of IsGone: only 410 counts as gone.
IsGoneOnly410(status) == status = 410

\* 404 or 410: the push service says the subscription is gone.
IsGone(status) == status = 404 \/ status = 410

\* sendToAll's per-subscription continuation: the summary after one attempt
\* for endpoint e has resolved with status.
SendToAllSettle(results, e, status) ==
    IF status = 201
    THEN [results EXCEPT !.sent = @ + 1]
    ELSE [results EXCEPT
            !.failed = @ + 1,
            !.errors = Append(@, [status |-> status,
                                  endpoint |-> TruncateEndpoint(e)]),
            !.removed = IF IsGone(status) THEN @ + 1 ELSE @]

\* Whether sendToAll runs stmts.deleteSub for an attempt that resolved
\* with status.
SendToAllDeletes(status) == status # 201 /\ IsGone(status)

\* Mutant of PurgeDeletes: the delete runs whatever the attempt resolved to.
PurgeDeletesAlways(status) == status = status

\* The purge handler's catch block: whether it runs stmts.deleteSub.
PurgeDeletes(status) == status # 201 /\ IsGone(status)

\* An async handler in flight. snapshot is what getAllSubs returned, pending
\* the endpoints whose attempt has not resolved, results sendToAll's summary,
\* removed the purge handler's counter; outcome records what each resolved
\* attempt resolved to.
NewOp(kind, msgId, title, body, ui, snapshot) ==
    [kind |-> kind, msgId |-> msgId, title |-> title, body |-> body,
     ui |-> ui, snapshot |-> snapshot,
     pending |-> {snapshot[i].endpoint : i \in DOMAIN snapshot},
     results |-> NoResults, removed |-> 0,
     outcome |-> [e \in {} |-> 0]]

\* Mutant of AllSettled: the handler goes on as soon as one attempt has
\* resolved (Promise.race in place of Promise.all).
AnySettled(op) ==
    op.pending = {} \/
    op.pending # {op.snapshot[i].endpoint : i \in DOMAIN op.snapshot}

\* await Promise.all(subs.map(...)): every attempt has resolved.
AllSettled(op) == op.pending = {}

\* The pushes a handler issues for its snapshot, in order.
PushAll(op) ==
    [i \in DOMAIN op.snapshot |->
        FxPush(op.snapshot[i].endpoint,
               IF op.kind = "purge"
               THEN [title |-> "oncall", body |-> "subscription verified"]
               ELSE [title |-> op.title, body |-> op.body,
                     messageId |-> op.msgId],
               op.kind = "purge")]

\* Mutant of NotifyFinish: a dispatch in which no attempt succeeded is
\* answered as a server error.
NotifyFinishFailing(op, cl, W) ==
    BroadcastWs(cl, [type |-> "notification", messageId |-> op.msgId,
                     title |-> op.title, body |-> op.body,
                     ui |-> IF Falsy(op.ui) THEN Null ELSE op.ui])
    \o FireWebhooks(W, "notification",
                    [event |-> "notification", messageId |-> op.msgId,
                     title |-> op.title, body |-> op.body])
    \o <<IF op.results.sent = 0 /\ op.results.failed > 0
         THEN Resp(500, [error |-> "delivery failed"])
         ELSE Resp(200, [messageId |-> op.msgId, results |-> op.results])>>

\* What a handler does once Promise.all has resolved.
NotifyFinish(op, cl, W) ==
    BroadcastWs(cl, [type |-> "notification", messageId |-> op.msgId,
                     title |-> op.title, body |-> op.body,
                     ui |-> IF Falsy(op.ui) THEN Null ELSE op.ui])
    \o FireWebhooks(W, "notification",
                    [event |-> "notification", messageId |-> op.msgId,
                     title |-> op.title, body |-> op.body])
    \o <<Resp(200, [messageId |-> op.msgId, results |-> op.results])>>

\* Mutant of WsNotifyFinish: the channel's notify fires the webhooks as the
\* request/response notify does.
WsNotifyFinishHooks(op, cl) ==
    BroadcastWs(cl, [type |-> "notification", messageId |-> op.msgId,
                     title |-> op.title, body |-> op.body,
                     results |-> op.results])
    \o FireWebhooks(webhooks, "notification",
                    [event |-> "notification", messageId |-> op.msgId,
                     title |-> op.title, body |-> op.body])

\* ws.on("message") once sendToAll has returned.
WsNotifyFinish(op, cl) ==
    BroadcastWs(cl, [type |-> "notification", messageId |-> op.msgId,
                     title |-> op.title, body |-> op.body,
                     results |-> op.results])

PurgeFinish(op, S, cl) ==
    BroadcastWs(cl, [type |-> "subscription", count |-> GetSubCount(S)])
    \o <<Resp(200, [ok |-> TRUE, removed |-> op.removed,
                    remaining |-> GetSubCount(S)])>>

\* Mutant of Finish: a rejected attempt is not caught, so Promise.all
\* rejects, the handler throws and nothing is answered.
FinishUncaught(op, S, cl, W) ==
    IF \E e \in DOMAIN op.outcome : op.outcome[e] # 201
    THEN <<[t |-> "finish", op |-> op], FxThrow>>
    ELSE <<[t |-> "finish", op |-> op]>> \o
         (IF op.kind = "notify" THEN NotifyFinish(op, cl, W)
          ELSE IF op.kind = "wsnotify" THEN WsNotifyFinish(op, cl)
          ELSE PurgeFinish(op, S, cl))

\* The handler's continuation once its pushes have resolved.
Finish(op, S, cl, W) ==
    <<[t |-> "finish", op |-> op]>> \o
    (IF op.kind = "notify" THEN NotifyFinish(op, cl, W)
     ELSE IF op.kind = "wsnotify" THEN WsNotifyFinish(op, cl)
     ELSE PurgeFinish(op, S, cl))

FreeOps == {o \in OpIds : ops[o].kind = "idle"}

\* Mutant of Launch: the pushes go out before the handler's earlier
\* effects (the insert of the message).
LaunchPushFirst(op, prefix) ==
    IF op.pending = {}
    THEN /\ ops' = ops
         /\ fx' = prefix \o Finish(op, subs, clients, webhooks)
         /\ fetches' = fetches \cup
                           Fetching(Finish(op, subs, clients, webhooks))
    ELSE /\ FreeOps # {}
         /\ LET o == CHOOSE x \in FreeOps : \A y \in FreeOps : x <= y
            IN ops' = [ops EXCEPT ![o] = op]
         /\ fx' = <<Head(prefix)>> \o PushAll(op) \o Tail(prefix)
         /\ fetches' = fetches

\* A handler reaches its await: with an empty snapshot Promise.all is
\* already resolved and the handler runs on; otherwise it waits in a slot.
Launch(op, prefix) ==
    IF AllSettled(op)
    THEN /\ ops' = ops
         /\ fx' = prefix \o Finish(op, subs, clients, webhooks)
         /\ fetches' = fetches \cup
                           Fetching(Finish(op, subs, clients, webhooks))
    ELSE /\ FreeOps # {}
         /\ LET o == CHOOSE x \in FreeOps : \A y \in FreeOps : x <= y
            IN ops' = [ops EXCEPT ![o] = op]
         /\ fx' = prefix \o PushAll(op)
         /\ fetches' = fetches

----------------------------------------------------------------------------
\* Initial state: an empty store, no connection, nothing in flight.

Init ==
    /\ subs = {}
    /\ subSeq = 0
    /\ messages = <<>>
    /\ uuidSeq = 0
    /\ clock = 0
    /\ webhooks = {}
    /\ clients = [c \in Conns |-> "absent"]
    /\ ops = [o \in OpIds |-> Idle]
    /\ fetches = {}
    /\ fx = <<>>

----------------------------------------------------------------------------
\* The request/response handlers (the credential is valid).

\* Mutant of InvalidSubscription: only the endpoint is checked.
InvalidSubscriptionEndpointOnly(endpoint, keys) == Falsy(endpoint)

\* The handlers' validation checks.
InvalidSubscription(endpoint, keys) ==
    Falsy(endpoint) \/ Falsy(keys.p256dh) \/ Falsy(keys.auth)
InvalidNotify(title, body) == Falsy(title) \/ Falsy(body)
InvalidRespond(text, data) == Falsy(text) /\ Falsy(data)

\* app.post("/api/subscribe")
Subscribe(endpoint, keys) ==
    LET req == Req("POST subscribe", [endpoint |-> endpoint, keys |-> keys])
    IN IF InvalidSubscription(endpoint, keys)
       THEN /\ fx' = <<req, Resp(400, [error |-> "Invalid subscription"])>>
            /\ UNCHANGED <<subs, subSeq, messages, uuidSeq, clock, webhooks,
                           clients, ops, fetches>>
       ELSE /\ subs' = InsertSub(subs, subSeq, endpoint, keys.p256dh, keys.auth)
            /\ subSeq' = subSeq + 1
            /\ fx' = <<req, FxInsertSub(endpoint, Matching(subs, endpoint) > 0)>>
                     \o BroadcastWs(clients, [type |-> "subscription",
                                              count |-> GetSubCount(subs')])
                     \o <<Resp(200, [ok |-> TRUE])>>
            /\ UNCHANGED <<messages, uuidSeq, clock, webhooks, clients, ops, fetches>>

\* app.delete("/api/subscribe")
Unsubscribe(endpoint) ==
    LET req == Req("DELETE subscribe", [endpoint |-> endpoint])
    IN IF Falsy(endpoint)
       THEN /\ fx' = <<req, Resp(400, [error |-> "Missing endpoint"])>>
            /\ UNCHANGED <<subs, subSeq, messages, uuidSeq, clock, webhooks,
                           clients, ops, fetches>>
       ELSE /\ subs' = DeleteSub(subs, endpoint)
            /\ fx' = <<req, FxDeleteSub(endpoint, Matching(subs, endpoint))>>
                     \o BroadcastWs(clients, [type |-> "subscription",
                                              count |-> GetSubCount(subs')])
                     \o <<Resp(200, [ok |-> TRUE])>>
            /\ UNCHANGED <<subSeq, messages, uuidSeq, clock, webhooks,
                           clients, ops, fetches>>

\* app.get("/api/subscriptions")
GetSubscriptions ==
    /\ fx' = <<Req("GET subscriptions", [none |-> TRUE]),
               Resp(200, [subscriptions |-> GetAllSubs(subs),
                          count |-> Len(GetAllSubs(subs))])>>
    /\ UNCHANGED <<subs, subSeq, messages, uuidSeq, clock, webhooks, clients,
                   ops, fetches>>

\* app.post("/api/notify")
Notify(title, body, ui) ==
    LET req == Req("POST notify", [title |-> title, body |-> body, ui |-> ui])
    IN IF InvalidNotify(title, body)
       THEN /\ fx' = <<req, Resp(400, [error |-> "title and body required"])>>
            /\ UNCHANGED <<subs, subSeq, messages, uuidSeq, clock, webhooks,
                           clients, ops, fetches>>
       ELSE /\ LET messageId == Uuidv4(uuidSeq)
                   uiJson == IF Falsy(ui) THEN Null ELSE Stringify(ui)
               IN IF InsertMessageOk(messages, messageId, Null)
                  THEN /\ messages' = InsertMessage(messages,
                             MessageRow(messageId, title, body, clock,
                                        "notification", Null, uiJson, Null))
                       /\ Launch(NewOp("notify", messageId, title, body, ui,
                                       GetAllSubs(subs)),
                                 <<req, FxInsertMessage(messageId)>>)
                  ELSE \* the insert throws: the async handler rejects
                       /\ fx' = <<req, FxThrow>>
                       /\ UNCHANGED <<messages, ops, fetches>>
            /\ uuidSeq' = uuidSeq + 1
            /\ UNCHANGED <<subs, subSeq, clock, webhooks, clients>>

\* stmts.getMessages: ORDER BY sentAt DESC LIMIT 100 (rows with equal sentAt
\* in rowid order).
MsgLimit == 100
RECURSIVE BySentAtDesc(_, _)
BySentAtDesc(M, left) ==
    IF left = {} THEN <<>>
    ELSE LET i == CHOOSE x \in left :
                    \A y \in left :
                        \/ M[y].sentAt < M[x].sentAt
                        \/ M[y].sentAt = M[x].sentAt /\ x <= y
         IN <<M[i]>> \o BySentAtDesc(M, left \ {i})
\* Mutant of GetMessages: the newest row is skipped (OFFSET 1).
GetMessagesSkipNewest(M) ==
    LET all == BySentAtDesc(M, DOMAIN M)
    IN SubSeq(all, 2, IF Len(all) < MsgLimit THEN Len(all) ELSE MsgLimit)

GetMessages(M) ==
    LET all == BySentAtDesc(M, DOMAIN M)
    IN SubSeq(all, 1, IF Len(all) < MsgLimit THEN Len(all) ELSE MsgLimit)

\* app.get("/api/messages")
ListMessages ==
    /\ fx' = <<Req("GET messages", [none |-> TRUE]),
               Resp(200, [messages |->
                   LET rows == GetMessages(messages)
                   IN [i \in DOMAIN rows |->
                         [rows[i] EXCEPT
                            !.ui = IF Falsy(@) THEN Null ELSE Parse(@),
                            !.data = IF Falsy(@) THEN Null ELSE Parse(@)]]])>>
    /\ UNCHANGED <<subs, subSeq, messages, uuidSeq, clock, webhooks, clients,
                   ops, fetches>>

\* The messageId a respond request may carry.
MessageIdInputs == {Missing, UnknownId} \cup {messages[i].id : i \in DOMAIN messages}

\* app.post("/api/respond")
Respond(messageId, text, data) ==
    LET req == Req("POST respond",
                   [messageId |-> messageId, text |-> text, data |-> data])
    IN IF InvalidRespond(text, data)
       THEN /\ fx' = <<req, Resp(400, [error |-> "text or data required"])>>
            /\ UNCHANGED <<subs, subSeq, messages, uuidSeq, clock, webhooks,
                           clients, ops, fetches>>
       ELSE /\ \E parent \in
                  IF ~Falsy(messageId) THEN {messageId}
                  ELSE IF LatestNotifications(messages) = {} THEN {Null}
                  ELSE {messages[i].id : i \in LatestNotifications(messages)} :
                 LET responseId == Uuidv4(uuidSeq)
                     dataJson == IF Falsy(data) THEN Null ELSE Stringify(data)
                 IN IF InsertMessageOk(messages, responseId, parent)
                    THEN /\ messages' = InsertMessage(messages,
                               MessageRow(responseId, "Response",
                                          IF Falsy(text) THEN "" ELSE text,
                                          clock, "response", parent, Null,
                                          dataJson))
                         /\ fx' = <<req, FxInsertMessage(responseId)>>
                               \o BroadcastWs(clients,
                                     [type |-> "response",
                                      responseId |-> responseId,
                                      messageId |-> parent,
                                      text |-> text, data |-> data])
                               \o FireWebhooks(webhooks, "response",
                                     [event |-> "response",
                                      responseId |-> responseId,
                                      messageId |-> parent,
                                      text |-> text, data |-> data])
                               \o <<Resp(200, [ok |-> TRUE,
                                               responseId |-> responseId])>>
                         /\ fetches' = fetches \cup
                               Fetching(FireWebhooks(webhooks, "response",
                                     [event |-> "response",
                                      responseId |-> responseId,
                                      messageId |-> parent,
                                      text |-> text, data |-> data]))
                    ELSE \* the insert throws: express answers 500
                         /\ messages' = messages
                         /\ fetches' = fetches
                         /\ fx' = <<req, FxThrow,
                                    Resp(500, [error |-> "SqliteError"])>>
            /\ uuidSeq' = uuidSeq + 1
            /\ UNCHANGED <<subs, subSeq, clock, webhooks, clients, ops>>

\* app.post("/api/purge")
Purge ==
    /\ Launch(NewOp("purge", Null, Null, Null, Null, GetAllSubs(subs)),
              <<Req("POST purge", [none |-> TRUE])>>)
    /\ UNCHANGED <<subs, subSeq, messages, uuidSeq, clock, webhooks, clients>>

\* app.post("/api/webhooks")
AddWebhook(url, events) ==
    LET req == Req("POST webhooks", [url |-> url, events |-> events])
    IN IF Falsy(url)
       THEN /\ fx' = <<req, Resp(400, [error |-> "url required"])>>
            /\ UNCHANGED <<subs, subSeq, messages, uuidSeq, clock, webhooks,
                           clients, ops, fetches>>
       ELSE /\ webhooks' = InsertWebhook(webhooks, url,
                              IF events = <<>> THEN <<"response">> ELSE events)
            /\ fx' = <<req, Resp(200, [ok |-> TRUE])>>
            /\ UNCHANGED <<subs, subSeq, messages, uuidSeq, clock, clients,
                           ops, fetches>>

\* app.delete("/api/webhooks")
RemoveWebhook(url) ==
    LET req == Req("DELETE webhooks", [url |-> url])
    IN IF Falsy(url)
       THEN /\ fx' = <<req, Resp(400, [error |-> "url required"])>>
            /\ UNCHANGED <<subs, subSeq, messages, uuidSeq, clock, webhooks,
                           clients, ops, fetches>>
       ELSE /\ webhooks' = DeleteWebhook(webhooks, url)
            /\ fx' = <<req, Resp(200, [ok |-> TRUE])>>
            /\ UNCHANGED <<subs, subSeq, messages, uuidSeq, clock, clients,
                           ops, fetches>>

\* app.get("/api/webhooks")
ListWebhooks ==
    /\ fx' = <<Req("GET webhooks", [none |-> TRUE]),
               Resp(200, [webhooks |-> GetAllWebhooks(webhooks)])>>
    /\ UNCHANGED <<subs, subSeq, messages, uuidSeq, clock, webhooks, clients,
                   ops, fetches>>

\* checkAuth: a request whose credential is not API_KEY.
Routes ==
    {"GET vapid-public-key", "POST subscribe", "DELETE subscribe",
     "GET subscriptions", "POST notify", "GET messages", "POST respond",
     "POST purge", "POST webhooks", "DELETE webhooks", "GET webhooks"}
CheckAuth(key) == key = API_KEY
Unauthorized(route, key) ==
    /\ ~CheckAuth(key)
    /\ fx' = <<Req(route, [key |-> key]),
               Resp(401, [error |-> "Unauthorized"])>>
    /\ UNCHANGED <<subs, subSeq, messages, uuidSeq, clock, webhooks, clients,
                   ops, fetches>>

\* app.get("/api/vapid-public-key")
GetVapidPublicKey ==
    /\ fx' = <<Req("GET vapid-public-key", [none |-> TRUE]),
               Resp(200, [publicKey |-> "vapid.publicKey"])>>
    /\ UNCHANGED <<subs, subSeq, messages, uuidSeq, clock, webhooks, clients,
                   ops, fetches>>

\* app.use(express.json()) is registered before app.use("/api", checkAuth):
\* a request whose JSON body does not parse never reaches checkAuth, the
\* parser hands its error to express, which answers 400.
BodyParseFailed(route, key) ==
    /\ fx' = <<Req(route, [key |-> key]),
               Resp(400, [error |-> "entity.parse.failed"])>>
    /\ UNCHANGED <<subs, subSeq, messages, uuidSeq, clock, webhooks, clients,
                   ops, fetches>>

\* The middleware chain of a request under /api: the body parser, then
\* checkAuth, then the route's handler.
Api(parses, key, route, Handler) ==
    IF ~parses THEN BodyParseFailed(route, key)
    ELSE IF ~CheckAuth(key) THEN Unauthorized(route, key)
    ELSE Handler

----------------------------------------------------------------------------
\* One push attempt of an async handler in flight resolves.

PushResolve(o, e, status) ==
    /\ ops[o].kind # "idle"
    /\ e \in ops[o].pending
    /\ LET op == ops[o]
           deletes == IF op.kind = "purge" THEN PurgeDeletes(status)
                      ELSE SendToAllDeletes(status)
           after == [op EXCEPT
                       !.pending = @ \ {e},
                       !.results = IF op.kind = "purge" THEN @
                                   ELSE SendToAllSettle(@, e, status),
                       !.removed = IF op.kind = "purge" /\ deletes
                                   THEN @ + 1 ELSE @,
                       !.outcome = (e :> status) @@ @]
           S == IF deletes THEN DeleteSub(subs, e) ELSE subs
       IN /\ subs' = S
          /\ ops' = [ops EXCEPT ![o] = IF AllSettled(after) THEN Idle
                                       ELSE after]
          /\ fx' = <<[t |-> "resolve", op |-> o, kind |-> op.kind,
                      endpoint |-> e, status |-> status]>>
                   \o (IF deletes THEN <<FxDeleteSub(e, Matching(subs, e))>>
                       ELSE <<>>)
                   \o (IF AllSettled(after)
                       THEN Finish(after, S, clients, webhooks) ELSE <<>>)
          /\ fetches' = IF AllSettled(after)
                        THEN fetches \cup
                                Fetching(Finish(after, S, clients, webhooks))
                        ELSE fetches
    /\ UNCHANGED <<subSeq, messages, uuidSeq, clock, webhooks, clients>>

----------------------------------------------------------------------------
\* The persistent channel.

\* Mutant of WsConnect: the key of the connection request is not checked.
WsConnectNoCheck(c, key) ==
    /\ clients[c] = "absent"
    /\ clients' = [clients EXCEPT ![c] = "open"]
    /\ fx' = <<Req("WS connect", [conn |-> c, key |-> key]),
               FxWs(c, [type |-> "init", count |-> GetSubCount(subs)])>>
    /\ UNCHANGED <<subs, subSeq, messages, uuidSeq, clock, webhooks, ops, fetches>>

\* wss.on("connection"): the connection is in wss.clients, OPEN; a wrong
\* key gets ws.close(4401), which leaves it CLOSING and without a message
\* listener until the socket is gone.
WsConnect(c, key) ==
    /\ clients[c] = "absent"
    /\ IF key # API_KEY
       THEN /\ clients' = [clients EXCEPT ![c] = "rejected"]
            /\ fx' = <<Req("WS connect", [conn |-> c, key |-> key]),
                       [t |-> "wsclose", conn |-> c, code |-> 4401]>>
       ELSE /\ clients' = [clients EXCEPT ![c] = "open"]
            /\ fx' = <<Req("WS connect", [conn |-> c, key |-> key]),
                       FxWs(c, [type |-> "init",
                                count |-> GetSubCount(subs)])>>
    /\ UNCHANGED <<subs, subSeq, messages, uuidSeq, clock, webhooks, ops, fetches>>

\* The peer starts closing an open connection: readyState becomes CLOSING.
WsClosing(c) ==
    /\ clients[c] = "open"
    /\ clients' = [clients EXCEPT ![c] = "closing"]
    /\ fx' = <<>>
    /\ UNCHANGED <<subs, subSeq, messages, uuidSeq, clock, webhooks, ops, fetches>>

\* The socket closes: the connection leaves wss.clients.
WsClosed(c) ==
    /\ clients[c] # "absent"
    /\ clients' = [clients EXCEPT ![c] = "absent"]
    /\ fx' = <<>>
    /\ UNCHANGED <<subs, subSeq, messages, uuidSeq, clock, webhooks, ops, fetches>>

\* ws.on("message"): only a connection that passed the key check has the
\* listener.
WsMessage(c, msg) ==
    LET req == Req("WS message", [conn |-> c, msg |-> msg])
    IN /\ clients[c] \in {"open", "rejected"}
       /\ IF /\ clients[c] = "open"
             /\ msg.type = "notify" /\ ~Falsy(msg.title) /\ ~Falsy(msg.body)
          THEN /\ LET messageId == Uuidv4(uuidSeq)
                  IN IF InsertMessageOk(messages, messageId, Null)
                     THEN /\ messages' = InsertMessage(messages,
                                MessageRow(messageId, msg.title, msg.body,
                                           clock, "notification", Null, Null,
                                           Null))
                          /\ Launch(NewOp("wsnotify", messageId, msg.title,
                                          msg.body, Null, GetAllSubs(subs)),
                                    <<req, FxInsertMessage(messageId)>>)
                     ELSE /\ fx' = <<req, FxThrow>>
                          /\ UNCHANGED <<messages, ops, fetches>>
               /\ uuidSeq' = uuidSeq + 1
          ELSE /\ fx' = <<req>>
               /\ UNCHANGED <<messages, uuidSeq, ops, fetches>>
       /\ UNCHANGED <<subs, subSeq, clock, webhooks, clients>>

\* One webhook delivery settles: fetch resolves (whatever the HTTP status)
\* or rejects, and a rejection is logged by its catch.
FetchOutcomes == {"resolved", "rejected"}
HookResolve(d, outcome) ==
    /\ d \in fetches
    /\ fetches' = fetches \ {d}
    /\ fx' = <<[t |-> "fetched", url |-> d.url, payload |-> d.payload,
                outcome |-> outcome]>>
             \o (IF outcome = "rejected"
                 THEN <<[t |-> "log", text |-> <<"Webhook", d.url, "failed">>]>>
                 ELSE <<>>)
    /\ UNCHANGED <<subs, subSeq, messages, uuidSeq, clock, webhooks, clients,
                   ops>>

\* datetime('now') moves on by a second.
Tick ==
    /\ clock' = clock + 1
    /\ fx' = <<>>
    /\ UNCHANGED <<subs, subSeq, messages, uuidSeq, webhooks, clients, ops, fetches>>

----------------------------------------------------------------------------

ValidSubKeys == {k \in SubKeyInputs : ~Falsy(k.p256dh) /\ ~Falsy(k.auth)}

Budget == subSeq + uuidSeq < MaxRequests
\* The same with one request less, for the specifications with many inputs.
SmallBudget == subSeq + uuidSeq < MaxRequests - 1

\* The dispatcher: subscribe, unsubscribe, notify and purge with every
\* outcome of the push attempts.
NextPush ==
    \/ \E e \in Endpoints :
          Budget /\ Subscribe(e, [p256dh |-> "k1", auth |-> "a1"])
    \/ \E e \in Endpoints : Unsubscribe(e)
    \/ Budget /\ Notify("Deploy", "Ready", Missing)
    \/ Purge
    \/ \E o \in OpIds, e \in Endpoints, st \in PushOutcomes :
          PushResolve(o, e, st)

\* The registry and the message list: subscribe with either key set,
\* unsubscribe, notify, the push attempts resolving, the message list.
NextSubs ==
    \/ \E e \in Endpoints, k \in ValidSubKeys : Budget /\ Subscribe(e, k)
    \/ \E e \in Endpoints : Unsubscribe(e)
    \/ Budget /\ Notify("Deploy", "Ready", Missing)
    \/ ListMessages
    \/ \E o \in OpIds, e \in Endpoints, st \in PushOutcomes :
          PushResolve(o, e, st)

SpecSubs == Init /\ [][NextSubs]_vars

Spec == Init /\ [][NextPush]_vars

\* The message log: notify and respond (any messageId, text and data) as
\* the clock moves, with nothing registered.
NextThread ==
    \/ \E u \in UiInputs :
          uuidSeq < MaxMsgs /\ Notify("Deploy", "Ready", u)
    \/ \E m \in MessageIdInputs, t \in TextInputs, d \in DataInputs :
          uuidSeq < MaxMsgs /\ Respond(m, t, d)
    \/ ListMessages
    \/ clock < MaxClock /\ Tick

SpecThread == Init /\ [][NextThread]_vars

\* The webhooks: register and remove with every events string, notify (at
\* once, or waiting for a push to one subscription) and respond.
NextHooks ==
    \/ \E u \in Urls, ev \in EventsInputs : AddWebhook(u, ev)
    \/ \E u \in Urls : RemoveWebhook(u)
    \/ ListWebhooks
    \/ SmallBudget /\ Subscribe("e1", [p256dh |-> "k1", auth |-> "a1"])
    \/ SmallBudget /\ Notify("Deploy", "Ready", Missing)
    \/ \E m \in {Missing, UnknownId} :
          SmallBudget /\ Respond(m, "approved", Missing)
    \/ \E o \in OpIds, st \in {201, 410} : PushResolve(o, "e1", st)

SpecHooks == Init /\ [][NextHooks]_vars

\* Validation: every handler that checks its input, with valid and invalid
\* input, while a subscription, a webhook and an observer may be there.
NextValidate ==
    \/ \E e \in EndpointInputs, k \in SubKeyInputs :
          (InvalidSubscription(e, k) \/ SmallBudget) /\ Subscribe(e, k)
    \/ \E e \in EndpointInputs : Unsubscribe(e)
    \/ \E t \in TitleInputs, b \in BodyInputs :
          (InvalidNotify(t, b) \/ SmallBudget) /\ Notify(t, b, Missing)
    \/ \E t \in TextInputs, d \in DataInputs :
          (InvalidRespond(t, d) \/ SmallBudget) /\ Respond(Missing, t, d)
    \/ \E u \in {"u1", Missing} : AddWebhook(u, <<"*">>)
    \/ \E u \in UrlInputs : RemoveWebhook(u)
    \/ \E o \in OpIds, e \in Endpoints : PushResolve(o, e, 201)
    \/ WsConnect("c1", API_KEY)

SpecValidate == Init /\ [][NextValidate]_vars

\* Authentication: every route under /api, with every credential and with
\* a body that parses or does not, while a subscription, a webhook and an
\* observer may be there.
BodyParses == {TRUE, FALSE}

NextAuth ==
    \/ \E p \in BodyParses, k \in KeyInputs :
          Api(p, k, "GET vapid-public-key", GetVapidPublicKey)
    \/ \E p \in BodyParses, k \in KeyInputs :
          Api(p, k, "POST subscribe",
              SmallBudget /\ Subscribe("e1", [p256dh |-> "k1", auth |-> "a1"]))
    \/ \E p \in BodyParses, k \in KeyInputs :
          Api(p, k, "DELETE subscribe", Unsubscribe("e1"))
    \/ \E p \in BodyParses, k \in KeyInputs :
          Api(p, k, "GET subscriptions", GetSubscriptions)
    \/ \E p \in BodyParses, k \in KeyInputs :
          Api(p, k, "POST notify",
              SmallBudget /\ Notify("Deploy", "Ready", Missing))
    \/ \E p \in BodyParses, k \in KeyInputs :
          Api(p, k, "GET messages", ListMessages)
    \/ \E p \in BodyParses, k \in KeyInputs :
          Api(p, k, "POST respond",
              SmallBudget /\ Respond(Missing, "approved", Missing))
    \/ \E p \in BodyParses, k \in KeyInputs :
          Api(p, k, "POST purge", Purge)
    \/ \E p \in BodyParses, k \in KeyInputs :
          Api(p, k, "POST webhooks", AddWebhook("u1", <<"*">>))
    \/ \E p \in BodyParses, k \in KeyInputs :
          Api(p, k, "DELETE webhooks", RemoveWebhook("u1"))
    \/ \E p \in BodyParses, k \in KeyInputs :
          Api(p, k, "GET webhooks", ListWebhooks)
    \/ \E o \in OpIds, st \in {201, 410} : PushResolve(o, "e1", st)
    \/ WsConnect("c1", API_KEY)

SpecAuth == Init /\ [][NextAuth]_vars

\* The persistent channel: connections opening with any key, closing and
\* going away, messages arriving on them, and the operations that
\* broadcast, while a subscription and a webhook may be there.
NextWs ==
    \/ \E c \in Conns, k \in KeyInputs : WsConnect(c, k)
    \/ \E c \in Conns : WsClosing(c)
    \/ \E c \in Conns : WsClosed(c)
    \/ \E c \in Conns, m \in WsMsgInputs :
          (Budget \/ clients[c] # "open" \/ m.type # "notify"
              \/ InvalidNotify(m.title, m.body))
          /\ WsMessage(c, m)
    \/ Budget /\ Subscribe("e1", [p256dh |-> "k1", auth |-> "a1"])
    \/ Unsubscribe("e1")
    \/ Budget /\ Respond(Missing, "approved", Missing)
    \/ Purge
    \/ AddWebhook("u1", <<"*">>)
    \/ \E o \in OpIds, st \in {201, 410} : PushResolve(o, "e1", st)

SpecWs == Init /\ [][NextWs]_vars

\* Webhook deliveries: webhooks registered and removed, notify and respond
\* firing them, and each delivery resolving, rejecting or staying in
\* flight.
NextFetch ==
    \/ \E u \in Urls, ev \in {<<"*">>, <<"notification">>} : AddWebhook(u, ev)
    \/ \E u \in Urls : RemoveWebhook(u)
    \/ Budget /\ Subscribe("e1", [p256dh |-> "k1", auth |-> "a1"])
    \/ Budget /\ Notify("Deploy", "Ready", Missing)
    \/ Budget /\ Respond(Missing, "approved", Missing)
    \/ \E o \in OpIds, st \in {201, 500} : PushResolve(o, "e1", st)
    \/ \E d \in fetches, r \in FetchOutcomes : HookResolve(d, r)

SpecFetch == Init /\ [][NextFetch]_vars

\* A notify waiting for its pushes: two endpoints whose attempts resolve in
\* any order with any outcome, an observer and a webhook to be told,
\* unsubscribe in between.
NextAwait ==
    \/ \E e \in Endpoints :
          Budget /\ Subscribe(e, [p256dh |-> "k1", auth |-> "a1"])
    \/ Budget /\ Notify("Deploy", "Ready", Missing)
    \/ \E o \in OpIds, e \in Endpoints, st \in PushOutcomes :
          PushResolve(o, e, st)
    \/ \E e \in Endpoints : Unsubscribe(e)
    \/ WsConnect("c1", API_KEY)
    \/ AddWebhook("u1", <<"notification">>)

SpecAwait == Init /\ [][NextAwait]_vars

\* The dispatcher, every issued push attempt resolving in the end (with
\* whatever outcome): webpush.sendNotification settles its promise.
NextLive ==
    \/ \E e \in Endpoints :
          Budget /\ Subscribe(e, [p256dh |-> "k1", auth |-> "a1"])
    \/ Budget /\ Notify("Deploy", "Ready", Missing)
    \/ Purge
    \/ \E o \in OpIds, e \in Endpoints, st \in {201, 410} :
          PushResolve(o, e, st)

PushesResolve ==
    \A o \in OpIds, e \in Endpoints :
       WF_vars(\E st \in {201, 410} : PushResolve(o, e, st))

SpecLive == Init /\ [][NextLive]_vars /\ PushesResolve

\* The message log under every operation of both channels.
NextLog ==
    \/ \E u \in UiInputs : Budget /\ Notify("Deploy", "Ready", u)
    \/ \E m \in MessageIdInputs :
          Budget /\ Respond(m, "approved", Missing)
    \/ Budget /\ Subscribe("e1", [p256dh |-> "k1", auth |-> "a1"])
    \/ Unsubscribe("e1")
    \/ Purge
    \/ AddWebhook("u1", <<"*">>)
    \/ RemoveWebhook("u1")
    \/ WsConnect("c1", API_KEY)
    \/ Budget /\ WsMessage("c1", [type |-> "notify", title |-> "Deploy",
                                  body |-> "Ready"])
    \/ \E o \in OpIds, st \in {201, 410} : PushResolve(o, "e1", st)
    \/ \E d \in fetches, r \in FetchOutcomes : HookResolve(d, r)

SpecLog == Init /\ [][NextLog]_vars

----------------------------------------------------------------------------
\* Reading the effects of the last run.

FxIdx(t) == {i \in DOMAIN fx : fx[i].t = t}
IsReq(route) == fx # <<>> /\ fx[1].t = "req" /\ fx[1].route = route
IsReqNext(route) == fx' # <<>> /\ fx'[1].t = "req" /\ fx'[1].route = route
Finished(kind) == {i \in FxIdx("finish") : fx[i].op.kind = kind}
IsResolve(kind) == fx # <<>> /\ fx[1].t = "resolve" /\ fx[1].kind = kind
IsResolveNext(kind) ==
    fx' # <<>> /\ fx'[1].t = "resolve" /\ fx'[1].kind = kind
PersistedNotification(id) ==
    \E k \in DOMAIN messages :
        /\ messages[k].id = id
        /\ messages[k].type = "notification"
        /\ messages[k].parentId = Null
GoneStatus(st) == st \in {404, 410}

----------------------------------------------------------------------------
\* C1: a valid notify on the request/response channel persists a message of
\* kind notification with parentId null before it issues its first push,
\* the record is there for as long as the notify is in flight, and the one
\* messageId the notify returns is the id of that record.
C1_PersistBeforeDispatch ==
    /\ \A i \in FxIdx("push") :
          ~fx[i].probe =>
             /\ \E j \in 1..(i - 1) :
                   fx[j] = FxInsertMessage(fx[i].payload.messageId)
             /\ PersistedNotification(fx[i].payload.messageId)
    /\ IsReq("POST notify") /\ FxIdx("push") # {} =>
          \E o \in OpIds :
             /\ ops[o].kind = "notify"
             /\ \A i \in FxIdx("push") : fx[i].payload.messageId = ops[o].msgId
    /\ \A o \in OpIds :
          ops[o].kind = "notify" => PersistedNotification(ops[o].msgId)
    /\ \A i \in Finished("notify") :
          /\ Cardinality(FxIdx("resp")) = 1
          /\ \A j \in FxIdx("resp") :
                /\ fx[j].status = 200
                /\ fx[j].body.messageId = fx[i].op.msgId
                /\ PersistedNotification(fx[j].body.messageId)
                /\ IsReq("POST notify") => fx[2] = FxInsertMessage(fx[j].body.messageId)

\* A notify has just issued its pushes.
C1_Witness ==
    /\ IsReq("POST notify")
    /\ Cardinality(FxIdx("push")) = 2
    /\ FxIdx("resp") = {}

\* The parts of C2.
C2_Summary ==
    \A i \in Finished("notify") \cup Finished("wsnotify") :
       LET op == fx[i].op
           N == Len(op.snapshot)
           K == Cardinality({e \in DOMAIN op.outcome : GoneStatus(op.outcome[e])})
           F == Cardinality({e \in DOMAIN op.outcome : op.outcome[e] # 201})
       IN /\ DOMAIN op.outcome = {op.snapshot[k].endpoint : k \in 1..N}
          /\ op.results.removed = K
          /\ op.results.failed = F /\ F >= K
          /\ op.results.sent = N - op.results.failed
          /\ Len(op.results.errors) = F

C2_Deletes ==
    IsResolve("notify") \/ IsResolve("wsnotify") =>
       /\ GoneStatus(fx[1].status) =>
             {fx[i].endpoint : i \in FxIdx("deleteSub")} = {fx[1].endpoint}
       /\ ~GoneStatus(fx[1].status) => FxIdx("deleteSub") = {}

C2_Step ==
    IsResolveNext("notify") \/ IsResolveNext("wsnotify") =>
       subs' = IF GoneStatus(fx'[1].status)
               THEN {r \in subs : r.endpoint # fx'[1].endpoint}
               ELSE subs

\* C2: a dispatch over a snapshot of N subscriptions of which K attempts
\* report gone (404 or 410) ends with removed = K, failed >= K and
\* sent = N - failed; it runs a delete for exactly the endpoints that
\* reported gone, and a resolving attempt changes the registry only by
\* removing the endpoint that reported gone.
C2_DispatchPrunesGone == [](C2_Summary /\ C2_Deletes) /\ [][C2_Step]_vars

\* A dispatch over two subscriptions ends: one reported gone, the other
\* failed with another status and is still registered.
C2_Witness ==
    \E i \in Finished("notify") :
       /\ Len(fx[i].op.snapshot) = 2
       /\ \E e, f \in DOMAIN fx[i].op.outcome :
             /\ fx[i].op.outcome[e] = 404
             /\ fx[i].op.outcome[f] = 500
             /\ \E r \in subs : r.endpoint = f
             /\ ~\E r \in subs : r.endpoint = e

\* The parts of C4.
C4_ProbeOk ==
    IsResolve("purge") /\ fx[1].status = 201 => FxIdx("deleteSub") = {}

C4_Step ==
    IsResolveNext("purge") /\ fx'[1].status = 201 => subs' = subs

\* C4: a purge runs no delete for a subscription whose probe push
\* succeeded, and that attempt's resolution leaves the registry as it was.
C4_PurgeKeepsLive == []C4_ProbeOk /\ [][C4_Step]_vars

\* A purge ends whose probe to one endpoint succeeded while the other
\* reported gone: the first is still registered.
C4_Witness ==
    \E i \in Finished("purge") :
       \E e, f \in DOMAIN fx[i].op.outcome :
          /\ fx[i].op.outcome[e] = 201
          /\ fx[i].op.outcome[f] = 410
          /\ fx[1].endpoint = e
          /\ \E r \in subs : r.endpoint = e

\* C9: whatever the push attempts of a valid notify resolve to, the notify
\* ends with one success response that carries its messageId and the
\* summary of the attempts, and its notification is still in the log.
C9_NotifyNeverFails ==
    \A i \in Finished("notify") :
       LET op == fx[i].op
       IN /\ fx[Len(fx)] = Resp(200, [messageId |-> op.msgId,
                                      results |-> op.results])
          /\ Cardinality(FxIdx("resp")) = 1
          /\ op.results.sent + op.results.failed = Len(op.snapshot)
          /\ op.results.sent =
                Cardinality({e \in DOMAIN op.outcome : op.outcome[e] = 201})
          /\ PersistedNotification(op.msgId)

\* A notify ends all of whose attempts (two) failed.
C9_Witness ==
    \E i \in Finished("notify") :
       /\ Len(fx[i].op.snapshot) = 2
       /\ fx[i].op.results.failed = 2
       /\ fx[i].op.results.sent = 0

\* The parts of C5.
C5_OnePerEndpoint ==
    \A r, q \in subs : r.endpoint = q.endpoint => r = q

C5_Reregister ==
    IsReq("POST subscribe") /\ fx[2].t = "insertSub" /\ fx[2].replaced =>
       /\ \E r \in subs :
             /\ r.endpoint = fx[1].args.endpoint
             /\ r.keys_p256dh = fx[1].args.keys.p256dh
             /\ r.keys_auth = fx[1].args.keys.auth
             /\ \A q \in subs : q.endpoint = r.endpoint => q = r
       /\ fx[Len(fx)] = Resp(200, [ok |-> TRUE])

C5_Step ==
    IsReqNext("POST subscribe") /\ fx'[2].t = "insertSub" =>
       /\ fx'[2].replaced = (\E r \in subs : r.endpoint = fx'[1].args.endpoint)
       /\ fx'[2].replaced => Cardinality(subs') = Cardinality(subs)
       /\ \A r \in subs :
             r.endpoint # fx'[1].args.endpoint => r \in subs'

\* C5: the registry never holds two records for one endpoint; a register
\* of an endpoint that is already registered answers ok, leaves the
\* subscriber count as it was and leaves the endpoint's one record with the
\* new key material.
C5_UpsertByEndpoint ==
    [](C5_OnePerEndpoint /\ C5_Reregister) /\ [][C5_Step]_vars

\* A registered endpoint has just been registered again with other keys: the
\* registry holds the one new record.
C5_Witness ==
    /\ IsReq("POST subscribe") /\ fx[2].t = "insertSub" /\ fx[2].replaced
    /\ fx[1].args.keys.p256dh = "k2"
    /\ \E r \in subs : r.keys_p256dh = "k2" /\ r.id = subSeq
    /\ Cardinality(subs) = 2

\* The parts of C6.
C6_Absent ==
    IsReqNext("DELETE subscribe")
    /\ ~(\E r \in subs : r.endpoint = fx'[1].args.endpoint) =>
       /\ subs' = subs
       /\ fx'[Len(fx')] = Resp(200, [ok |-> TRUE])
       /\ \A i \in DOMAIN fx' : fx'[i].t = "deleteSub" => fx'[i].changes = 0
       /\ \A i \in DOMAIN fx' :
             fx'[i].t = "ws" => fx'[i].data.count = Cardinality(subs)

C6_Once ==
    IsReqNext("DELETE subscribe") =>
       /\ subs' = {r \in subs : r.endpoint # fx'[1].args.endpoint}
       /\ fx'[Len(fx')] = Resp(200, [ok |-> TRUE])

C6_Twice ==
    /\ IsReq("DELETE subscribe") /\ IsReqNext("DELETE subscribe")
    /\ fx[1].args.endpoint = fx'[1].args.endpoint
    => subs' = subs

\* C6: an unregister of an endpoint that is not registered answers ok and
\* leaves the registry, and so the subscriber count, as it was; an
\* unregister leaves no record of its endpoint and every other record in
\* place, so a second unregister of the same endpoint changes nothing.
C6_UnregisterIdempotent == [][C6_Absent /\ C6_Once /\ C6_Twice]_vars

\* An unregister of an endpoint that is not registered has just been
\* answered, while another endpoint is registered.
C6_Witness ==
    /\ IsReq("DELETE subscribe")
    /\ \E i \in FxIdx("deleteSub") : fx[i].changes = 0
    /\ fx[Len(fx)] = Resp(200, [ok |-> TRUE])
    /\ Cardinality(subs) = 1

\* The parts of C8.
C8_ZeroSummary ==
    IsReq("POST notify") /\ subs = {} =>
       /\ fx[2].t = "insertMessage"
       /\ fx[Len(fx)] =
             Resp(200, [messageId |-> fx[2].id,
                        results |-> [sent |-> 0, failed |-> 0, removed |-> 0,
                                     errors |-> <<>>]])
       /\ PersistedNotification(fx[2].id)
       /\ FxIdx("push") = {}

C8_Listed ==
    IsReq("GET messages") /\ Len(messages) <= MsgLimit =>
       \A k \in DOMAIN messages :
          messages[k].type = "notification" =>
             \E n \in DOMAIN fx[2].body.messages :
                /\ fx[2].body.messages[n].id = messages[k].id
                /\ fx[2].body.messages[n].type = "notification"

C8_ListNext ==
    /\ IsReq("POST notify") /\ subs = {}
    /\ IsReqNext("GET messages")
    => \E n \in DOMAIN fx'[2].body.messages :
          /\ fx'[2].body.messages[n].id = fx[2].id
          /\ fx'[2].body.messages[n].type = "notification"

\* C8: a valid notify issued while the registry is empty returns a
\* messageId and the summary {sent:0, failed:0, removed:0, errors:[]}, and
\* a messages list asked for next contains a notification with that id (as
\* does every later list, for as long as the log holds at most MsgLimit
\* rows).
C8_NotifyNoSubscribers ==
    [](C8_ZeroSummary /\ C8_Listed) /\ [][C8_ListNext]_vars

\* The messages list has just been answered and holds a notification, and
\* nothing is or was registered.
C8_Witness ==
    /\ IsReq("GET messages")
    /\ subSeq = 0
    /\ \E n \in DOMAIN fx[2].body.messages :
          fx[2].body.messages[n].type = "notification"

\* C3: a respond that omits messageId and carries text or data is stored as
\* a response under a fresh id and answered ok with that id; its parentId
\* is the id of a notification whose sentAt no notification exceeds, or
\* null when the log holds no notification.
C3_RespondLinksLatest ==
    /\ IsReq("POST respond")
    /\ fx[1].args.messageId = Missing
    /\ ~(fx[1].args.text = Missing /\ fx[1].args.data = Missing)
    => LET n == Len(messages)
           notes == {k \in 1..(n - 1) : messages[k].type = "notification"}
       IN /\ n >= 1
          /\ messages[n].type = "response"
          /\ fx[2] = FxInsertMessage(messages[n].id)
          /\ fx[Len(fx)] = Resp(200, [ok |-> TRUE,
                                      responseId |-> messages[n].id])
          /\ \A k \in 1..(n - 1) : messages[k].id # messages[n].id
          /\ IF notes = {}
             THEN messages[n].parentId = Null
             ELSE \E k \in notes :
                     /\ messages[k].id = messages[n].parentId
                     /\ \A j \in notes :
                           messages[j].sentAt <= messages[k].sentAt

\* A respond without messageId has just been stored under the later of two
\* notifications recorded in different seconds.
C3_Witness ==
    /\ IsReq("POST respond")
    /\ fx[1].args.messageId = Missing
    /\ Len(messages) = 3
    /\ messages[1].type = "notification" /\ messages[2].type = "notification"
    /\ messages[1].sentAt < messages[2].sentAt
    /\ messages[3].parentId = messages[2].id

\* The parts of C7.
ListsEvent(events, k) ==
    \/ events = <<"*">>
    \/ \E i \in DOMAIN events :
          /\ events[i] = k
          /\ i = 1 \/ events[i - 1] = ","
          /\ i = Len(events) \/ events[i + 1] = ","

FiredEvents ==
    {k \in {"notification"} : Finished("notify") # {}}
    \cup {k \in {"response"} :
            /\ IsReq("POST respond")
            /\ fx[Len(fx)].t = "resp" /\ fx[Len(fx)].status = 200}

\* C7: when a notify or a respond on the request/response channel fires
\* event k, a registered webhook gets one call if its events string is "*"
\* or has k as one of its comma-separated items, and no call otherwise; no
\* other run of the event loop calls a webhook.
C7_WebhookFilter ==
    /\ \A k \in FiredEvents :
          /\ \A i \in FxIdx("hook") : fx[i].payload.event = k
          /\ \A u \in Urls :
                Cardinality({i \in FxIdx("hook") : fx[i].url = u}) =
                   IF \E h \in webhooks : h.url = u /\ ListsEvent(h.events, k)
                   THEN 1 ELSE 0
    /\ FiredEvents = {} => FxIdx("hook") = {}

\* A respond has just been answered while one webhook listens to
\* "notification" and another to "*": only the second was called.
C7_Witness ==
    /\ "response" \in FiredEvents
    /\ [url |-> "u1", events |-> <<"notification">>] \in webhooks
    /\ [url |-> "u2", events |-> <<"*">>] \in webhooks
    /\ {fx[i].url : i \in FxIdx("hook")} = {"u2"}

\* The parts of C10.
InvalidRequest(f) ==
    /\ f # <<>>
    /\ f[1].t = "req"
    /\ \/ /\ f[1].route = "POST notify"
          /\ f[1].args.title = Missing \/ f[1].args.body = Missing
       \/ /\ f[1].route = "POST respond"
          /\ f[1].args.text = Missing /\ f[1].args.data = Missing
       \/ /\ f[1].route = "POST subscribe"
          /\ \/ f[1].args.endpoint = Missing
             \/ f[1].args.keys.p256dh = Missing
             \/ f[1].args.keys.auth = Missing
       \/ /\ f[1].route = "DELETE subscribe"
          /\ f[1].args.endpoint = Missing
       \/ /\ f[1].route \in {"POST webhooks", "DELETE webhooks"}
          /\ f[1].args.url = Missing

C10_OnlyClientError ==
    InvalidRequest(fx) =>
       /\ Len(fx) = 2
       /\ fx[2].t = "resp"
       /\ fx[2].status = 400

C10_Step ==
    InvalidRequest(fx') =>
       UNCHANGED <<subs, subSeq, messages, uuidSeq, clock, webhooks, clients,
                   ops>>

\* C10: a request rejected for validation (notify without title or body,
\* respond with neither text nor data, subscribe without endpoint or a key
\* field, unsubscribe or webhook register/remove without endpoint/url) is
\* answered 400 and does nothing else: no store write, no push, no realtime
\* event, no webhook call, and the state is as it was.
C10_RejectedChangesNothing == []C10_OnlyClientError /\ [][C10_Step]_vars

\* A subscribe without its auth key has just been rejected while a
\* subscription, a webhook, an observer and a notify in flight are there.
C10_Witness ==
    /\ InvalidRequest(fx)
    /\ fx[1].route = "POST subscribe"
    /\ fx[1].args.endpoint # Missing
    /\ fx[1].args.keys.auth = Missing
    /\ subs # {} /\ webhooks # {} /\ clients["c1"] = "open"
    /\ \E o \in OpIds : ops[o].kind = "notify"

\* The parts of C11.
BadCredentialNext ==
    /\ fx' # <<>>
    /\ fx'[1].t = "req"
    /\ "key" \in DOMAIN fx'[1].args
    /\ fx'[1].args.key # API_KEY

\* C11: a request that presents a missing or incorrect credential is
\* answered 401 with the one fixed body, whatever the state is, and the run
\* writes nothing to subscriptions, messages or webhooks, issues no push,
\* sends nothing to an observer and calls no webhook.
C11_UnauthorizedRejected ==
    [][BadCredentialNext =>
          /\ fx' = <<fx'[1], Resp(401, [error |-> "Unauthorized"])>>
          /\ UNCHANGED <<subs, subSeq, messages, webhooks, ops>>]_vars

\* What does hold: such a request is answered 401, or 400 when its body
\* does not parse, and has no effect either way.
C11_NoEffect ==
    [][BadCredentialNext =>
          /\ Len(fx') = 2
          /\ fx'[2] \in {Resp(401, [error |-> "Unauthorized"]),
                         Resp(400, [error |-> "entity.parse.failed"])}
          /\ UNCHANGED <<subs, subSeq, messages, webhooks, ops>>]_vars
\* The parts of C12.
C12_OnlyOpenReceive ==
    \A i \in FxIdx("ws") : clients[fx[i].conn] = "open"

C12_Connect ==
    IsReq("WS connect") =>
       LET c == fx[1].args.conn
       IN IF fx[1].args.key # API_KEY
          THEN /\ clients[c] = "rejected"
               /\ fx = <<fx[1], [t |-> "wsclose", conn |-> c, code |-> 4401]>>
          ELSE /\ clients[c] = "open"
               /\ fx = <<fx[1], FxWs(c, [type |-> "init",
                                         count |-> Cardinality(subs)])>>

C12_Step ==
    /\ \A c \in Conns :
          /\ clients[c] = "rejected" => clients'[c] \in {"rejected", "absent"}
          /\ clients[c] # "open" /\ clients'[c] = "open" =>
                /\ IsReqNext("WS connect")
                /\ fx'[1].args = [conn |-> c, key |-> API_KEY]
    /\ IsReqNext("WS message") /\ clients[fx'[1].args.conn] = "rejected" =>
          /\ fx' = <<fx'[1]>>
          /\ UNCHANGED <<subs, subSeq, messages, uuidSeq, webhooks, ops>>

\* C12: a connection opened with a wrong or missing key is closed with
\* 4401 in the run that accepts it, is sent nothing then or later (no init,
\* no broadcast) and a notify it sends changes nothing; a connection opened
\* with the key is sent init with the current subscription count as the
\* first thing it receives.
C12_InvalidKeyNeverObserves ==
    [](C12_OnlyOpenReceive /\ C12_Connect) /\ [][C12_Step]_vars

C12_Witness ==
    /\ IsReq("WS message")
    /\ fx[1].args.msg = [type |-> "notify", title |-> "Deploy", body |-> "Ready"]
    /\ clients[fx[1].args.conn] = "rejected"
    /\ clients["c1"] = "open"
    /\ subs # {}

\* The parts of C13.
WsNotifyAccepted(f, cl) ==
    /\ f # <<>>
    /\ f[1].t = "req" /\ f[1].route = "WS message"
    /\ cl[f[1].args.conn] = "open"
    /\ f[1].args.msg.type = "notify"
    /\ ~InvalidNotify(f[1].args.msg.title, f[1].args.msg.body)

C13_Persists ==
    WsNotifyAccepted(fx, clients) =>
       LET m == fx[1].args.msg
           row == messages[Len(messages)]
       IN /\ fx[2] = FxInsertMessage(row.id)
          /\ row = MessageRow(row.id, m.title, m.body, clock, "notification",
                              Null, Null, Null)
          /\ \A r \in subs :
                Cardinality({i \in FxIdx("push") :
                    fx[i] = FxPush(r.endpoint,
                                   [title |-> m.title, body |-> m.body,
                                    messageId |-> row.id], FALSE)}) = 1
          /\ Cardinality(FxIdx("push")) = Cardinality(subs)
          /\ FxIdx("hook") = {}
          /\ FxIdx("resp") = {}

C13_Broadcasts ==
    \A i \in Finished("wsnotify") :
       LET op == fx[i].op
       IN /\ \A c \in Conns :
                clients[c] = "open" =>
                   \E j \in FxIdx("ws") :
                      /\ j > i
                      /\ fx[j] = FxWs(c, [type |-> "notification",
                                          messageId |-> op.msgId,
                                          title |-> op.title,
                                          body |-> op.body,
                                          results |-> op.results])
          /\ op.results.sent + op.results.failed = Len(op.snapshot)
          /\ PersistedNotification(op.msgId)
          /\ FxIdx("hook") = {}
          /\ FxIdx("resp") = {}

C13_Step ==
    /\ IsReqNext("WS message")
    /\ fx'[1].args.msg.type = "notify"
    /\ InvalidNotify(fx'[1].args.msg.title, fx'[1].args.msg.body)
    => /\ fx' = <<fx'[1]>>
       /\ UNCHANGED <<subs, subSeq, messages, uuidSeq, clock, webhooks,
                      clients, ops>>

\* C13: a notify message with title and body on an open connection stores
\* a notification without ui, issues one push per registered subscription
\* with the payload the request/response notify uses and, when the pushes
\* have resolved, sends every open connection a notification event with
\* the summary; no run of it calls a webhook or answers a request.  A
\* notify message without title or body has no effect.
C13_ChannelNotify ==
    [](C13_Persists /\ C13_Broadcasts) /\ [][C13_Step]_vars

C13_Witness ==
    \E i \in Finished("wsnotify") :
       /\ Len(fx[i].op.snapshot) = 1
       /\ fx[i].op.results.removed = 1
       /\ [url |-> "u1", events |-> <<"*">>] \in webhooks
       /\ \E c \in Conns : clients[c] = "open"

\* C14: every response in the log with a parentId names, by it, a message
\* of the log that is a notification.
C14_ParentIsNotification ==
    \A i \in DOMAIN messages :
       messages[i].type = "response" /\ messages[i].parentId # Null =>
          \E j \in DOMAIN messages :
             /\ messages[j].id = messages[i].parentId
             /\ messages[j].type = "notification"

\* What the FOREIGN KEY does enforce: the parent is a message of the log.
C14_ParentExists ==
    \A i \in DOMAIN messages :
       messages[i].parentId # Null =>
          \E j \in DOMAIN messages : messages[j].id = messages[i].parentId

\* The parts of C15.
C15_RespondOutcome ==
    IsReq("POST respond") /\ fx[2].t = "insertMessage" =>
       /\ fx[Len(fx)] = Resp(200, [ok |-> TRUE, responseId |-> fx[2].id])
       /\ \A i \in FxIdx("hook") :
             /\ i < Len(fx)
             /\ fx[i].payload.responseId = fx[2].id
             /\ [url |-> fx[i].url, payload |-> fx[i].payload] \in fetches

C15_NotifyOutcome ==
    \A n \in Finished("notify") :
       /\ fx[Len(fx)] = Resp(200, [messageId |-> fx[n].op.msgId,
                                   results |-> fx[n].op.results])
       /\ \A i \in FxIdx("hook") :
             /\ n < i /\ i < Len(fx)
             /\ fx[i].payload.messageId = fx[n].op.msgId
             /\ [url |-> fx[i].url, payload |-> fx[i].payload] \in fetches

C15_OnePerWebhook ==
    /\ \A i, j \in FxIdx("hook") : fx[i].url = fx[j].url => i = j
    /\ FxIdx("hook") # {} =>
          IsReq("POST respond") \/ Finished("notify") # {}

C15_Step ==
    /\ \A i \in DOMAIN fx' :
          fx'[i].t = "hook" =>
             [url |-> fx'[i].url, payload |-> fx'[i].payload] \notin fetches
    /\ fx' # <<>> /\ fx'[1].t = "fetched" =>
          /\ \A i \in DOMAIN fx' : fx'[i].t \in {"fetched", "log"}
          /\ fetches' = fetches \ {[url |-> fx'[1].url,
                                     payload |-> fx'[1].payload]}
          /\ UNCHANGED <<subs, subSeq, messages, uuidSeq, clock, webhooks,
                         clients, ops>>

\* C15: the run of a respond or notify that calls the webhooks answers in
\* that same run, with the response it gives when no webhook is
\* registered, while every delivery it issued is still in flight; a
\* delivery that resolves or rejects later changes nothing, answers
\* nothing and is not issued again; one run issues at most one delivery
\* per webhook, for its own message.
C15_FireAndForget ==
    [](C15_RespondOutcome /\ C15_NotifyOutcome /\ C15_OnePerWebhook)
    /\ [][C15_Step]_vars

C15_Witness ==
    /\ fx # <<>> /\ fx[1].t = "fetched" /\ fx[1].outcome = "rejected"
    /\ fx[1].payload.event = "notification"
    /\ \E d \in fetches : d.payload.event = "response"
    /\ \E i \in DOMAIN messages : messages[i].type = "response"

\* The parts of C16.
SnapshotEndpoints(op) == {op.snapshot[i].endpoint : i \in DOMAIN op.snapshot}

NotifyOutput(x) ==
    \/ x.t = "resp" /\ x.status = 200 /\ "messageId" \in DOMAIN x.body
    \/ x.t = "ws" /\ x.data.type = "notification"
    \/ x.t = "hook" /\ x.payload.event = "notification"

NotifyOutputId(x) ==
    IF x.t = "resp" THEN x.body.messageId
    ELSE IF x.t = "ws" THEN x.data.messageId
    ELSE x.payload.messageId

C16_AfterAll ==
    \A i \in DOMAIN fx :
       NotifyOutput(fx[i]) =>
          \E n \in Finished("notify") :
             /\ n < i
             /\ fx[n].op.msgId = NotifyOutputId(fx[i])
             /\ fx[n].op.pending = {}
             /\ DOMAIN fx[n].op.outcome = SnapshotEndpoints(fx[n].op)
             /\ \A o \in OpIds :
                   ops[o].kind # "idle" => ops[o].msgId # fx[n].op.msgId

C16_AllIssued ==
    /\ IsReq("POST notify") /\ FxIdx("insertMessage") # {} =>
          {fx[i].endpoint : i \in FxIdx("push")} = {r.endpoint : r \in subs}
    /\ \A o \in OpIds :
          ops[o].kind = "notify" =>
             /\ ops[o].pending # {}
             /\ ops[o].pending \cup DOMAIN ops[o].outcome
                   = SnapshotEndpoints(ops[o])
             /\ ops[o].pending \cap DOMAIN ops[o].outcome = {}
             /\ \A e \in ops[o].pending, st \in PushOutcomes :
                   ENABLED PushResolve(o, e, st)

\* C16: a response to a notify, its notification event and its webhook
\* calls appear only in the run in which the last push attempt of its
\* snapshot resolves, after that resolution; the notify issues the pushes
\* for the whole snapshot in its first run, and as long as it waits any
\* of the attempts still pending can be the next to resolve, with any
\* outcome.
C16_AwaitsAllPushes == C16_AfterAll /\ C16_AllIssued

C16_Witness ==
    /\ IsResolve("notify")
    /\ fx[1].endpoint = "e2" /\ fx[1].status = 500
    /\ FxIdx("finish") = {}
    /\ \E o \in OpIds :
          /\ ops[o].kind = "notify"
          /\ ops[o].pending = {"e1"}
          /\ Len(ops[o].snapshot) = 2
    /\ clients["c1"] = "open" /\ webhooks # {}

\* The parts of C17.
NotifyWaiting(m) ==
    \E o \in OpIds : ops[o].kind = "notify" /\ ops[o].msgId = m

NotifyAnswered(m) ==
    \E i \in FxIdx("resp") :
       /\ fx[i].status = 200
       /\ "messageId" \in DOMAIN fx[i].body
       /\ fx[i].body.messageId = m

PurgeAnswered(o) ==
    /\ IsResolve("purge") /\ fx[1].op = o
    /\ \E i \in FxIdx("resp") :
          fx[i].status = 200 /\ "removed" \in DOMAIN fx[i].body

C17_OneResponse ==
    /\ Cardinality(FxIdx("resp")) <= 1
    /\ Finished("notify") \cup Finished("purge") # {} =>
          /\ Cardinality(FxIdx("finish")) = 1
          /\ Cardinality(FxIdx("resp")) = 1
    /\ IsReq("POST notify") \/ IsReq("POST purge") =>
          \/ FxIdx("resp") # {}
          \/ \E o \in OpIds : ops[o].kind # "idle" /\ ops[o].pending # {}

\* C17: if every push attempt that was issued resolves in the end, a notify
\* that stored its message and a purge are answered: at once when the
\* snapshot is empty, otherwise in a later run, whatever runs in between;
\* no run answers twice and the run that ends a dispatch answers once.
C17_EventuallyResponds ==
    /\ []C17_OneResponse
    /\ \A m \in {Uuidv4(n) : n \in 0..(MaxRequests - 1)} :
          NotifyWaiting(m) ~> NotifyAnswered(m)
    /\ \A o \in OpIds : (ops[o].kind = "purge") ~> PurgeAnswered(o)

C17_Witness ==
    /\ IsResolve("notify") /\ Finished("notify") # {}
    /\ \E i \in Finished("notify") :
          Len(fx[i].op.snapshot) = 2 /\ fx[i].op.results.failed = 1
    /\ \E o \in OpIds : ops[o].kind = "purge"
    /\ subs = {}

\* C18: a respond that omits messageId, made when several notifications
\* share the greatest sentAt, is stored with the one of them that was
\* inserted last as its parent.
C18_TieLinksLastInserted ==
    /\ IsReq("POST respond")
    /\ fx[1].args.messageId = Missing
    /\ fx[2].t = "insertMessage"
    => LET before == SubSeq(messages, 1, Len(messages) - 1)
           latest == LatestNotifications(before)
       IN Cardinality(latest) >= 2 =>
             messages[Len(messages)].parentId =
                before[CHOOSE i \in latest : \A j \in latest : j <= i].id

\* The parts of C19.
Broadcasts(f) ==
    /\ Len(f) >= 2
    /\ \/ f[2].t = "insertSub"
       \/ f[1].t = "req" /\ f[1].route = "DELETE subscribe"
             /\ f[2].t = "deleteSub"
       \/ f[1].t = "req" /\ f[1].route = "POST respond"
             /\ f[2].t = "insertMessage"
       \/ \E i \in DOMAIN f : f[i].t = "finish"

Events(c) == {i \in FxIdx("ws") : fx[i].conn = c /\ fx[i].data.type # "init"}

C19_OncePerOpen ==
    \A c \in Conns :
       Cardinality(Events(c)) =
          IF Broadcasts(fx) /\ clients[c] = "open" THEN 1 ELSE 0

C19_OneEvent ==
    \A i, j \in FxIdx("ws") :
       fx[i].data.type # "init" /\ fx[j].data.type # "init" =>
          fx[i].data = fx[j].data

C19_NoFailure ==
    Broadcasts(fx) =>
       /\ FxIdx("throw") = {}
       /\ fx[1].t = "req" /\ fx[1].route # "WS message" =>
             fx[Len(fx)].t = "resp" /\ fx[Len(fx)].status = 200

\* C19: a run that broadcasts sends its one event once to each connection
\* that is open and to no other (not to one that is closing, was refused
\* or is gone), whatever connected or disconnected before; it throws
\* nothing and the request that caused it is answered 200.
C19_BroadcastOncePerObserver ==
    C19_OncePerOpen /\ C19_OneEvent /\ C19_NoFailure

C19_Witness ==
    /\ \E i \in Finished("purge") : fx[i].op.removed = 1
    /\ Cardinality(Events("c2")) = 1
    /\ clients["c1"] = "closing"
    /\ fx[Len(fx)].t = "resp"

\* The parts of C20.
C20_UniqueIds ==
    \A i, j \in DOMAIN messages : messages[i].id = messages[j].id => i = j

C20_Step ==
    /\ Len(messages') >= Len(messages)
    /\ SubSeq(messages', 1, Len(messages)) = messages

\* C20: no run removes a message or changes a field of one: the log after
\* a run is the log before it, possibly with new rows after it; no two
\* rows of the log have the same id.
C20_AppendOnly == []C20_UniqueIds /\ [][C20_Step]_vars

C20_Witness ==
    /\ Len(messages) = 3
    /\ messages[1].type = "notification" /\ messages[1].ui # Null
    /\ messages[2].type = "response" /\ messages[2].parentId = messages[1].id
    /\ messages[3].type = "notification"
    /\ IsReq("WS message") /\ FxIdx("insertMessage") # {}

\* The run that has just been made is the resolution of a push attempt.
ResolvesNext == fx' # <<>> /\ fx'[1].t = "resolve"

\* The registry records a handler in flight read into its snapshot.
Snapshotted(op) == {op.snapshot[i] : i \in DOMAIN op.snapshot}

\* C21: the resolution of a push attempt of a notify or a purge removes
\* from the registry only records that are in the snapshot the handler
\* took: a record written by a subscribe made after the snapshot (a new
\* endpoint, or the same endpoint registered again) stays.
C21_NewerRegistrationKept ==
    [][ResolvesNext =>
          (subs \ subs') \subseteq Snapshotted(ops[fx'[1].op])]_vars

\* What holds of the same runs: the record removed has the endpoint of the
\* attempt that resolved, and that endpoint is in the snapshot.
C21_RemovesSnapshottedEndpoint ==
    [][ResolvesNext =>
          \A r \in subs \ subs' :
             /\ r.endpoint = fx'[1].endpoint
             /\ \E s \in Snapshotted(ops[fx'[1].op]) :
                   s.endpoint = r.endpoint]_vars

\* The parts of C22. The last run changed the number of registry records:
\* an insert that replaced nothing, or a delete that removed a row.
SizeChanged(f) ==
    \E i \in DOMAIN f :
       \/ f[i].t = "insertSub" /\ ~f[i].replaced
       \/ f[i].t = "deleteSub" /\ f[i].changes > 0

NothingInFlight == \A o \in OpIds : ops[o].kind = "idle"

\* The events of the last run that carry a subscriber count to c.
CountEvents(c) ==
    {i \in FxIdx("ws") :
        fx[i].conn = c /\ fx[i].data.type \in {"init", "subscription"}}

ToldCount(c) ==
    \E i \in CountEvents(c) : fx[i].data.count = GetSubCount(subs)

\* C22: a run that changes the size of the registry and leaves no handler
\* in flight (so that nothing more is due to run) sends every open
\* connection an event that carries the new count: the count a connected
\* observer was told last is the size of the registry.
C22_CountFollowsRegistry ==
    SizeChanged(fx) /\ NothingInFlight =>
       \A c \in Conns : clients[c] = "open" => ToldCount(c)

\* What holds: subscribe, unsubscribe and the end of a purge tell every
\* open connection the count of the registry as it is then.
C22_ExplicitChangesBroadcast ==
    \/ IsReq("POST subscribe") /\ FxIdx("insertSub") # {}
    \/ IsReq("DELETE subscribe") /\ FxIdx("deleteSub") # {}
    \/ Finished("purge") # {}
    => \A c \in Conns : clients[c] = "open" => ToldCount(c)

\* The parts of C23. What a handler has counted as removed so far:
\* results.removed in sendToAll, removed in the purge handler.
RemovedSoFar(op) == op.removed + op.results.removed

\* The handler of slot o after the run that has just been made: still in
\* its slot, or handed to its continuation when its last attempt resolved.
OpAfterNext(o) ==
    IF ops'[o].kind = "idle"
    THEN fx'[CHOOSE i \in DOMAIN fx' : fx'[i].t = "finish"].op
    ELSE ops'[o]

CountedNext == RemovedSoFar(OpAfterNext(fx'[1].op)) - RemovedSoFar(ops[fx'[1].op])
DeletedNext == Cardinality(subs) - Cardinality(subs')

\* C23: the resolution of a push attempt adds to the removed count of its
\* notify or purge exactly the number of registry records it deleted, so
\* the removed values that are returned add up to the deletions made,
\* whatever other notify, purge or unsubscribe ran in between.
C23_RemovedCountsDeletions ==
    [][ResolvesNext => CountedNext = DeletedNext]_vars

\* What holds: a resolution deletes at most one record and counts every
\* record it deletes; it counts only for a 404 or a 410.
C23_DeletionsAreCounted ==
    [][ResolvesNext =>
          /\ DeletedNext \in {0, 1}
          /\ DeletedNext <= CountedNext
          /\ CountedNext = IF IsGone(fx'[1].status) THEN 1 ELSE 0]_vars

\* The parts of C24. The run that has just been made is a respond that
\* passed validation and named a parent that no stored message has.
OrphanRespondNext ==
    /\ IsReqNext("POST respond")
    /\ ~InvalidRespond(fx'[1].args.text, fx'[1].args.data)
    /\ ~Falsy(fx'[1].args.messageId)
    /\ \A i \in DOMAIN messages : messages[i].id # fx'[1].args.messageId

\* The run that has just been made stored, broadcast or fired nothing and
\* was answered with a server error.
RefusedNext ==
    /\ messages' = messages
    /\ fetches' = fetches
    /\ \A i \in DOMAIN fx' : fx'[i].t \notin {"insertMessage", "ws", "hook"}
    /\ \E i \in DOMAIN fx' : fx'[i].t = "throw"
    /\ fx'[Len(fx')].t = "resp"
    /\ fx'[Len(fx')].status = 500
    /\ "ok" \notin DOMAIN fx'[Len(fx')].body

\* C24: a respond with text or data whose messageId names no stored
\* message fails at the insert: the log is unchanged, no connection is
\* sent an event, no webhook delivery starts, and the answer is a server
\* error without ok.
C24_OrphanRespondRefused == [][OrphanRespondNext => RefusedNext]_vars

C24_Witness ==
    /\ IsReq("POST respond")
    /\ fx[1].args.messageId = UnknownId
    /\ FxIdx("throw") # {}
    /\ \E i \in DOMAIN messages : messages[i].type = "notification"
    /\ clients["c1"] = "open"
    /\ webhooks # {}

====
